---------------------------- MODULE Spec2Model ----------------------------
(* A model of src/src/print_on_steroids/print.py: the level table, the two  *)
(* line formatters, the PrinterOnSteroids facade and the graceful_exceptions *)
(* context manager.                                                          *)
(*                                                                           *)
(* Python's None is the empty tuple and a present value v is <<v>>, so that  *)
(* "x is None" is x = None and a falsy-but-present value (0, False, "")      *)
(* stays distinguishable from an argument that was not supplied.             *)
(* A string that the code only stores or looks up is a TLA+ string; a        *)
(* message, which the code joins and escapes, is a tuple of characters.      *)
EXTENDS Integers, Sequences, FiniteSets, TLC

VARIABLES
    mode,              \* self.mode
    verbosity,         \* self.verbosity
    package_name,      \* self.package_name
    rank,              \* self.rank
    print_rank0_only,  \* self.print_rank0_only
    call,              \* the most recent call: its name and its arguments
    raised,            \* the exception the most recent call left propagating
    written,           \* the lines the most recent call wrote to the console
    lock,              \* tqdm's write lock: external_write_mode scopes held
    gx                 \* the graceful_exceptions block in progress

vars == <<mode, verbosity, package_name, rank, print_rank0_only,
          call, raised, written, lock, gx>>

None == <<>>

Some(v) == <<v>>

Opt(S) == {None} \cup {Some(v) : v \in S}

-----------------------------------------------------------------------------
(* Bounds of the model.                                                      *)

\* Ranks of a distributed job are 0 .. MaxRank.
MaxRank == 1

Ranks == 0 .. MaxRank

-----------------------------------------------------------------------------
(* LogLevel                                                                  *)

Levels == {"print", "debug", "info", "success", "warning", "error"}

color_map ==
    [print |-> "default", debug |-> "grey30", info |-> "light_sky_blue3",
     success |-> "dark_green", warning |-> "dark_orange3", error |-> "red"]

repr_map ==
    [print |-> "PRINT", debug |-> "DEBUG", info |-> "INFO",
     success |-> "SUCCESS", warning |-> "WARNING", error |-> "ERROR"]

int_map ==
    [print |-> 0 - 1, debug |-> 0, info |-> 1,
     success |-> 2, warning |-> 3, error |-> 4]

get_color(key) == color_map[key]

get_repr(key) == repr_map[key]

get_int(key) == int_map[key]

-----------------------------------------------------------------------------
(* Strings the code joins and escapes: tuples of characters.                 *)

LowerCase ==
    {"a", "b", "c", "d", "e", "f", "g", "h", "i", "j", "k", "l", "m",
     "n", "o", "p", "q", "r", "s", "t", "u", "v", "w", "x", "y", "z"}

\* The first character of a markup tag, after its "[": [a-z#/@].
TagStart == LowerCase \cup {"#", "/", "@"}

Backslash == "\\"

\* The position of the "]" closing the tag whose "[" is at j, or 0 when no
\* tag starts at j: "[" then a TagStart character, then the shortest run
\* without "[" that ends in "]".
TagEnd(s, j) ==
    IF j + 1 > Len(s) \/ s[j] # "[" \/ s[j + 1] \notin TagStart
    THEN 0
    ELSE LET closers == {k \in (j + 2) .. Len(s) :
                            /\ s[k] = "]"
                            /\ \A m \in (j + 2) .. (k - 1) : s[m] # "["}
         IN IF closers = {} THEN 0
            ELSE CHOOSE k \in closers : \A m \in closers : k <= m

\* The number of consecutive backslashes of s from position i on.
RECURSIVE BackslashRun(_, _)
BackslashRun(s, i) ==
    IF i <= Len(s) /\ s[i] = Backslash THEN 1 + BackslashRun(s, i + 1) ELSE 0

Backslashes(n) == [k \in 1 .. n |-> Backslash]

\* re.sub of (\\*)(\[[a-z#/@][^[]*?]) by \1\1\\\2, scanning s from position i.
RECURSIVE EscapeFrom(_, _)
EscapeFrom(s, i) ==
    IF i > Len(s) THEN <<>>
    ELSE LET n == BackslashRun(s, i)
             e == TagEnd(s, i + n)
         IN IF e # 0
            THEN Backslashes(2 * n) \o <<Backslash>> \o SubSeq(s, i + n, e)
                     \o EscapeFrom(s, e + 1)
            ELSE <<s[i]>> \o EscapeFrom(s, i + 1)

\* rich.markup.escape: every tag gets a backslash in front (the backslashes
\* already in front of it doubled), and a single trailing backslash is doubled.
escape_markup(s) ==
    LET t == EscapeFrom(s, 1)
        n == Len(t)
    IN IF n >= 1 /\ t[n] = Backslash /\ ~(n >= 2 /\ t[n - 1] = Backslash)
       THEN t \o <<Backslash>>
       ELSE t

\* sep.join(str(value) for value in values)
RECURSIVE Join(_, _)
Join(values, sep) ==
    IF values = <<>> THEN <<>>
    ELSE IF Len(values) = 1 THEN values[1]
    ELSE values[1] \o sep \o Join(Tail(values), sep)

\* str(x) of an optional name: "None" when absent.
StrOf(o) == IF o = None THEN "None" ELSE o[1]

\* Python's truth value of an optional flag.
Truthy(o) == o # None /\ o[1]

-----------------------------------------------------------------------------
(* rich_print: one console write inside tqdm's external_write_mode.          *)

\* external_write_mode's "finally": the lock is released however the block ends.
external_write_exit(held, failed) == held - 1

\* The result of rich_print(objects) when the console write succeeds (ok) or
\* raises: the lines written, the lock afterwards and the exception left.
rich_print(content, ok) ==
    LET held == lock + 1
    IN [written |-> IF ok THEN <<[content |-> content, held |-> held > 0]>> ELSE <<>>,
        lock    |-> external_write_exit(held, ~ok),
        raised  |-> IF ok THEN None ELSE Some("ConsoleError")]

\* A call that returns before it writes.
NoWrite == [written |-> <<>>, lock |-> lock, raised |-> None]

-----------------------------------------------------------------------------
(* The two line formatters. Their keyword arguments are the fields of a.     *)

\* A mutant of rank_suppressed: an absent rank is let through.
rank_suppressed_known_rank(a) ==
    Truthy(a.rank0_only) /\ a.rank # None /\ a.rank # Some(0)

\* "if rank0_only and rank != 0: return", the first statement of both.
rank_suppressed(a) == Truthy(a.rank0_only) /\ a.rank # Some(0)

\* print_on_steroids
print_on_steroids(a, ok) ==
    IF rank_suppressed(a)
    THEN NoWrite
    ELSE LET print_level == IF a.level = "print" THEN FALSE ELSE a.print_level
             joined      == Join(a.values, a.sep)
             message     == IF a.escape THEN escape_markup(joined) ELSE joined
         IN rich_print([kind      |-> "log",
                        namespace |-> None,
                        color     |-> get_color(a.level),
                        timestamp |-> a.print_time,
                        level     |-> IF print_level
                                      THEN Some(get_repr(a.level)) ELSE None,
                        origin    |-> IF a.print_origin
                                      THEN Some(a.stack_offset) ELSE None,
                        rank      |-> IF a.rank # None /\ ~Truthy(a.rank0_only)
                                      THEN a.rank ELSE None,
                        message   |-> message], ok)

\* namespace_print_on_steroids
namespace_print_on_steroids(a, ok) ==
    IF rank_suppressed(a)
    THEN NoWrite
    ELSE LET joined  == Join(a.values, a.sep)
             message == IF a.escape THEN escape_markup(joined) ELSE joined
         IN rich_print([kind      |-> "log",
                        namespace |-> Some(StrOf(a.namespace)),
                        color     |-> get_color(a.level),
                        timestamp |-> FALSE,
                        level     |-> Some(get_repr(a.level)),
                        origin    |-> None,
                        rank      |-> None,
                        message   |-> message], ok)

-----------------------------------------------------------------------------
(* PrinterOnSteroids                                                         *)

ConcreteModes == {"dev", "package", "silent"}

Self ==
    [mode |-> mode, verbosity |-> verbosity, package_name |-> package_name,
     rank |-> rank, print_rank0_only |-> print_rank0_only]

\* str.upper() of the package names the model uses.
Upper == ("" :> "" @@ "svc" :> "SVC")

\* os.getenv(name, default)
getenv(env, name, default) ==
    IF name \in DOMAIN env /\ env[name] # None THEN env[name][1] ELSE default

\* os.getenv(f"{package_name.upper()}_LOG_MODE", "package")
mode_from_env(env, name) == getenv(env, <<Upper[name], "_LOG_MODE">>, "package")

\* The keyword defaults of log and of the six per-level methods.
StackOffset(op) == IF op = "log" THEN 2 ELSE 3

DefaultTime(op) == op # "print"

DefaultLevel(op) == op \notin {"print", "debug"}

DefaultOrigin(op) == op # "print"

\* The arguments log runs with for the call c: a per-level method passes its
\* own level and stack offset on, and each toggle the caller left out is the
\* method's default.
Bind(c) ==
    [values       |-> c.values,
     level        |-> IF c.op = "log" THEN c.level ELSE c.op,
     rank         |-> c.rank,
     rank0_only   |-> c.rank0_only,
     sep          |-> <<" ">>,
     escape       |-> c.escape,
     stack_offset |-> StackOffset(c.op),
     print_time   |-> IF c.print_time = None THEN DefaultTime(c.op) ELSE c.print_time[1],
     print_level  |-> IF c.print_level = None THEN DefaultLevel(c.op) ELSE c.print_level[1],
     print_origin |-> IF c.print_origin = None THEN DefaultOrigin(c.op) ELSE c.print_origin[1]]

\* A mutant of BelowVerbosity: the truth value tested is the threshold's
\* severity, so the threshold debug (0) drops nothing.
BelowVerbosityFalsySeverity(self, level) ==
    /\ self.verbosity # None
    /\ get_int(self.verbosity[1]) # 0
    /\ get_int(level) < get_int(self.verbosity[1])

\* The verbosity check of log.
BelowVerbosity(self, level) ==
    self.verbosity # None /\ get_int(level) < get_int(self.verbosity[1])

\* A mutant of AboveDebug: debug itself is let through.
AboveDebugOrEqual(level) == get_int(level) >= get_int("debug")

\* The level check of log's package branch.
AboveDebug(level) == get_int(level) > get_int("debug")

\* The keyword arguments log passes to namespace_print_on_steroids; escape is
\* not among them, so the callee's default (False) applies.
NamespaceArgs(self, a) ==
    [values |-> a.values, namespace |-> self.package_name, level |-> a.level,
     rank |-> a.rank, rank0_only |-> a.rank0_only, sep |-> a.sep,
     escape |-> FALSE]

\* PrinterOnSteroids.log
log(self, a, ok) ==
    IF self.mode = "silent" THEN NoWrite
    ELSE IF BelowVerbosity(self, a.level) THEN NoWrite
    ELSE LET r  == IF a.rank = None THEN self.rank ELSE a.rank
             r0 == IF a.rank0_only = None
                   THEN Some(self.print_rank0_only) ELSE a.rank0_only
             b  == [a EXCEPT !.rank = r, !.rank0_only = r0]
         IN IF self.mode = "dev" THEN print_on_steroids(b, ok)
            ELSE IF self.mode = "package"
            THEN IF AboveDebug(a.level)
                 THEN namespace_print_on_steroids(NamespaceArgs(self, b), ok)
                 ELSE NoWrite
            ELSE NoWrite

\* PrinterOnSteroids.config: one field, kept when the argument is None.
config_field(current, arg) == IF arg = None THEN current ELSE arg

-----------------------------------------------------------------------------
(* The inputs the calls are drawn from.                                      *)

PackageNames == {"", "svc"}

\* What the environment may hold in a <PACKAGE>_LOG_MODE variable.
EnvValues == ConcreteModes \cup {"verbose"}

EnvNames == {<<Upper[p], "_LOG_MODE">> : p \in PackageNames}

\* The environments: at most one of the variables is set.
Environments ==
    {e \in [EnvNames -> Opt(EnvValues)] :
        Cardinality({n \in EnvNames : e[n] # None}) <= 1}

ModeArgs == ConcreteModes \cup {"from_env"}

ConfigCalls ==
    [op : {"config"}, mode : Opt(ConcreteModes), verbosity : Opt(Levels),
     package_name : Opt(PackageNames), rank : Opt(Ranks),
     print_rank0_only : Opt(BOOLEAN)]

InitCalls ==
    [mode : ModeArgs, verbosity : Opt(Levels), package_name : Opt({"svc"}),
     rank : Opt(Ranks), print_rank0_only : BOOLEAN, env : Environments]

\* The messages: one the console would read markup in, one plain.
Markup == <<"[", "b", "]", "x">>

Oops == <<"o", "o", "p", "s">>

LogOps == Levels \cup {"log"}

\* A call with every optional argument left out, writing to a working console.
PlainCall(op, level) ==
    [op |-> op, level |-> level, values |-> <<Oops>>, rank |-> None,
     rank0_only |-> None, escape |-> FALSE, print_time |-> None,
     print_level |-> None, print_origin |-> None, console_ok |-> TRUE]

\* log itself at every level, and each per-level method.
PlainCalls ==
    {PlainCall("log", l) : l \in Levels} \cup {PlainCall(l, l) : l \in Levels}

\* The calls of the per-level methods that pass a rank or a rank0_only.
RankCalls ==
    {[PlainCall(l, l) EXCEPT !.rank = r, !.rank0_only = r0] :
        l \in Levels, r \in Opt(Ranks), r0 \in Opt(BOOLEAN)}

\* The calls of the per-level methods that vary the message, escape and the
\* three print_* toggles.
FormatCalls ==
    {[PlainCall(l, l) EXCEPT !.values = v, !.escape = e, !.print_time = t,
                             !.print_level = t, !.print_origin = t] :
        l \in Levels, v \in {<<Oops>>, <<Markup, Oops>>},
        e \in BOOLEAN, t \in Opt(BOOLEAN)}

\* The calls of the per-level methods whose console write raises.
FailingCalls == {[PlainCall(l, l) EXCEPT !.console_ok = FALSE] : l \in Levels}

LogCalls == PlainCalls \cup RankCalls \cup FormatCalls \cup FailingCalls

\* The idle graceful_exceptions block.
NoBlock == [pc |-> "idle"]

-----------------------------------------------------------------------------
(* Construction and configuration.                                           *)

\* PrinterOnSteroids.__init__: the mode it stores.
init_mode(a) ==
    IF a.mode = "from_env" THEN mode_from_env(a.env, a.package_name[1]) ELSE a.mode

\* A facade just constructed: __init__ returned (its assert held).
Init ==
    \E a \in InitCalls :
        /\ a.mode = "from_env" => a.package_name # None
        /\ mode = init_mode(a)
        /\ package_name = a.package_name
        /\ rank = a.rank
        /\ print_rank0_only = a.print_rank0_only
        /\ verbosity = a.verbosity
        /\ call = [op |-> "__init__"]
        /\ raised = None
        /\ written = <<>>
        /\ lock = 0
        /\ gx = NoBlock

\* A mutant of Config: "rank or self.rank", which keeps the old rank when
\* the rank supplied is 0.
ConfigRankOr ==
    \E c \in ConfigCalls :
        /\ rank' = IF c.rank \in {None, Some(0)} THEN rank ELSE c.rank
        /\ mode' = config_field(Some(mode), c.mode)[1]
        /\ package_name' = config_field(package_name, c.package_name)
        /\ print_rank0_only' = config_field(Some(print_rank0_only), c.print_rank0_only)[1]
        /\ verbosity' = config_field(verbosity, c.verbosity)
        /\ call' = c
        /\ raised' = None
        /\ written' = <<>>
        /\ UNCHANGED <<lock, gx>>

\* PrinterOnSteroids.config
Config ==
    \E c \in ConfigCalls :
        /\ rank' = config_field(rank, c.rank)
        /\ mode' = config_field(Some(mode), c.mode)[1]
        /\ package_name' = config_field(package_name, c.package_name)
        /\ print_rank0_only' = config_field(Some(print_rank0_only), c.print_rank0_only)[1]
        /\ verbosity' = config_field(verbosity, c.verbosity)
        /\ call' = c
        /\ raised' = None
        /\ written' = <<>>
        /\ UNCHANGED <<lock, gx>>

\* PrinterOnSteroids.set_rank
SetRank ==
    \E r \in Ranks :
        /\ rank' = Some(r)
        /\ call' = [op |-> "set_rank", rank |-> r]
        /\ raised' = None
        /\ written' = <<>>
        /\ UNCHANGED <<mode, verbosity, package_name, print_rank0_only, lock, gx>>

\* A mutant of set_mode_asserts: the value read is not checked, as in __init__.
set_mode_asserts_name_only(self, env) == self.package_name # None

\* The two asserts of set_mode("from_env").
set_mode_asserts(self, env) ==
    /\ self.package_name # None
    /\ mode_from_env(env, self.package_name[1]) \in ConcreteModes

\* PrinterOnSteroids.set_mode
SetMode ==
    \E m \in ModeArgs, env \in Environments :
        /\ call' = [op |-> "set_mode", mode |-> m, env |-> env]
        /\ IF m = "from_env"
           THEN IF set_mode_asserts(Self, env)
                THEN /\ mode' = mode_from_env(env, package_name[1])
                     /\ raised' = None
                ELSE /\ mode' = mode
                     /\ raised' = Some("AssertionError")
           ELSE /\ mode' = m
                /\ raised' = None
        /\ written' = <<>>
        /\ UNCHANGED <<verbosity, package_name, rank, print_rank0_only, lock, gx>>

Next == Config \/ SetRank \/ SetMode

Spec == Init /\ [][Next]_vars

-----------------------------------------------------------------------------
(* Logging.                                                                  *)

\* log, print, debug, info, success, warning, error
Log ==
    \E c \in LogCalls :
        LET res == log(Self, Bind(c), c.console_ok)
        IN /\ call' = c
           /\ written' = res.written
           /\ lock' = res.lock
           /\ raised' = res.raised
           /\ UNCHANGED <<mode, verbosity, package_name, rank, print_rank0_only, gx>>

NextLog == Log \/ SetRank

SpecLog == Init /\ [][NextLog]_vars

-----------------------------------------------------------------------------
(* graceful_exceptions                                                       *)

\* The exception classes of the model, each with its base class.
Base ==
    [BaseException |-> "object", Exception |-> "BaseException",
     KeyboardInterrupt |-> "BaseException", ValueError |-> "Exception",
     TypeError |-> "Exception", UnicodeError |-> "ValueError"]

Classes == DOMAIN Base

\* issubclass(c, d)
RECURSIVE issubclass(_, _)
issubclass(c, d) ==
    IF c = d THEN TRUE
    ELSE IF c \notin Classes THEN FALSE
    ELSE issubclass(Base[c], d)

\* What the wrapped block may raise.
RaisedClasses == {"Exception", "ValueError", "TypeError", "UnicodeError", "KeyboardInterrupt"}

\* The handled_exceptions argument: one class, or an iterable of classes.
HandledClasses == {"Exception", "ValueError", "TypeError"}

HandledArgs ==
    {[iterable |-> FALSE, classes |-> {c}] : c \in HandledClasses}
        \cup {[iterable |-> TRUE, classes |-> S] : S \in SUBSET HandledClasses}

\* "except Exception as e" catches e.
Caught(e) == issubclass(e, "Exception")

\* any(issubclass(e.__class__, exc) for exc in handled_exceptions)
Handled(e, handled) == \E exc \in handled : issubclass(e, exc)

\* get_console().rule(...): a line written straight to the console.
console_rule(arrow, exit) ==
    [content |-> [kind |-> "rule", arrow |-> arrow,
                  style |-> IF exit THEN "red" ELSE "green",
                  prefix |-> IF exit THEN "" ELSE "Caught "],
     held |-> lock > 0]

\* The module's own facade: logger = PrinterOnSteroids(mode="dev", package_name=None)
InitLogger ==
    /\ mode = "dev"
    /\ package_name = None
    /\ rank = None
    /\ print_rank0_only = FALSE
    /\ verbosity = Some("print")
    /\ call = [op |-> "__init__"]
    /\ raised = None
    /\ written = <<>>
    /\ lock = 0
    /\ gx = NoBlock

Resting == {"idle", "returned", "propagated", "continued", "failed"}

\* "with graceful_exceptions(handled_exceptions, on_exception=..., exit=...):"
\* is entered: the handled classes are made a list and the block starts.
Enter ==
    \E h \in HandledArgs, x \in BOOLEAN :
        /\ gx.pc \in Resting
        /\ gx' = [pc |-> "body", handled |-> h.classes, exit |-> x,
                  exc |-> None, trace |-> <<>>, out |-> None, status |-> 0]
        /\ call' = [op |-> "graceful_exceptions", handled_exceptions |-> h, exit |-> x]
        /\ written' = <<>>
        /\ raised' = None
        /\ UNCHANGED <<mode, verbosity, package_name, rank, print_rank0_only, lock>>

\* The block completes normally.
BodyReturns ==
    /\ gx.pc = "body"
    /\ gx' = [gx EXCEPT !.pc = "returned"]
    /\ UNCHANGED <<mode, verbosity, package_name, rank, print_rank0_only,
                   call, raised, written, lock>>

\* A mutant of dispatch: every exception caught is reported.
dispatch_all(e, handled) == IF Caught(e) THEN "upper_rule" ELSE "propagated"

\* Where an exception e raised by the block goes: past the except clause or
\* re-raised by it (the same exception leaves), or into the report.
dispatch(e, handled) ==
    IF Caught(e) /\ Handled(e, handled) THEN "upper_rule" ELSE "propagated"

\* The block raises e.
BodyRaises ==
    \E e \in RaisedClasses :
        /\ gx.pc = "body"
        /\ LET to == dispatch(e, gx.handled)
           IN /\ gx' = [gx EXCEPT !.pc = to, !.exc = Some(e),
                                  !.out = IF to = "propagated" THEN Some(e) ELSE None]
              /\ raised' = IF to = "propagated" THEN Some(e) ELSE None
        /\ UNCHANGED <<mode, verbosity, package_name, rank, print_rank0_only,
                       call, written, lock>>

\* get_console().rule(title="(down arrow) ...")
UpperRule ==
    /\ gx.pc = "upper_rule"
    /\ written' = Append(written, console_rule("down", gx.exit))
    /\ gx' = [gx EXCEPT !.pc = "traceback", !.trace = Append(@, "upper_rule")]
    /\ UNCHANGED <<mode, verbosity, package_name, rank, print_rank0_only,
                   call, raised, lock>>

\* rich_print(exc_message.strip()); a write that raises leaves the block.
Traceback ==
    \E ok \in BOOLEAN :
        /\ gx.pc = "traceback"
        /\ LET res == rich_print([kind |-> "traceback", exc |-> gx.exc[1]], ok)
           IN /\ written' = written \o res.written
              /\ lock' = res.lock
              /\ raised' = res.raised
              /\ gx' = [gx EXCEPT !.pc = IF ok THEN "lower_rule" ELSE "failed",
                                  !.trace = IF ok THEN Append(@, "traceback") ELSE @,
                                  !.out = res.raised]
        /\ UNCHANGED <<mode, verbosity, package_name, rank, print_rank0_only, call>>

\* get_console().rule(title="(up arrow) ...")
LowerRule ==
    /\ gx.pc = "lower_rule"
    /\ written' = Append(written, console_rule("up", gx.exit))
    /\ gx' = [gx EXCEPT !.pc = "on_exception", !.trace = Append(@, "lower_rule")]
    /\ UNCHANGED <<mode, verbosity, package_name, rank, print_rank0_only,
                   call, raised, lock>>

\* on_exception(e)
OnException ==
    /\ gx.pc = "on_exception"
    /\ gx' = [gx EXCEPT !.pc = "finish", !.trace = Append(@, <<"on_exception", gx.exc[1]>>)]
    /\ UNCHANGED <<mode, verbosity, package_name, rank, print_rank0_only,
                   call, raised, written, lock>>

\* A mutant of finish: the exception is swallowed whatever exit says.
finish_never_exits(exit) == "continued"

\* How the except clause ends: sys.exit(1), or falling off its end.
finish(exit) == IF exit THEN "exited" ELSE "continued"

\* "if exit: sys.exit(1)"
Finish ==
    /\ gx.pc = "finish"
    /\ gx' = [gx EXCEPT !.pc = finish(gx.exit),
                        !.status = IF finish(gx.exit) = "exited" THEN 1 ELSE 0]
    /\ UNCHANGED <<mode, verbosity, package_name, rank, print_rank0_only,
                   call, raised, written, lock>>

NextReporter ==
    \/ Enter
    \/ BodyReturns
    \/ BodyRaises
    \/ UpperRule
    \/ Traceback
    \/ LowerRule
    \/ OnException
    \/ Finish

SpecReporter == InitLogger /\ [][NextReporter]_vars

-----------------------------------------------------------------------------
(* The properties checked. In a state that follows a logging call, call is   *)
(* that call, written is what it wrote, and the facade is as the call found  *)
(* it, since no logging call changes a field of the facade.                  *)

IsLogCall == call.op \in LogOps

LevelOf(c) == IF c.op = "log" THEN c.level ELSE c.op

\* The call-site value if supplied, otherwise the facade's.
EffectiveRank == IF call.rank = None THEN rank ELSE call.rank

EffectiveRank0Only ==
    IF call.rank0_only = None THEN print_rank0_only ELSE call.rank0_only[1]

RankRestricted == EffectiveRank0Only /\ EffectiveRank # Some(0)

\* C1: a call whose level is strictly less severe than the verbosity
\* threshold writes nothing, whatever the mode. A level as severe as the
\* threshold is not dropped: in dev mode, with no rank restriction and a
\* working console, it writes its line.
C1_BelowThresholdSilent ==
    IsLogCall /\ verbosity # None =>
        /\ int_map[LevelOf(call)] < int_map[verbosity[1]] => written = <<>>
        /\ ( /\ LevelOf(call) = verbosity[1]
             /\ mode = "dev"
             /\ ~RankRestricted
             /\ call.console_ok ) => Len(written) = 1

C1_Witness ==
    /\ IsLogCall
    /\ mode = "dev"
    /\ verbosity = Some("debug")
    /\ LevelOf(call) = "print"
    /\ ~RankRestricted
    /\ call.console_ok
    /\ written = <<>>

\* C2: a logging call restricted to rank 0 (by its own rank0_only, or else by
\* the facade's print_rank0_only) whose rank (its own, or else the facade's)
\* is not 0, an absent rank included, writes nothing, at every level and in
\* every mode.
C2_RestrictedRankSilent == IsLogCall /\ RankRestricted => written = <<>>

C2_Witness ==
    /\ IsLogCall
    /\ mode = "dev"
    /\ verbosity = Some("print")
    /\ call.rank0_only = None
    /\ print_rank0_only
    /\ EffectiveRank = None
    /\ call.console_ok
    /\ written = <<>>

\* C3: config stores every argument supplied, a falsy one (rank 0, False, the
\* empty package name) included, and leaves every field whose argument was
\* not supplied as it was; config() changes nothing.
C3_ConfigFrame ==
    [][call'.op = "config" =>
        /\ mode' = (IF call'.mode = None THEN mode ELSE call'.mode[1])
        /\ verbosity' = (IF call'.verbosity = None THEN verbosity ELSE call'.verbosity)
        /\ package_name' =
               (IF call'.package_name = None THEN package_name ELSE call'.package_name)
        /\ rank' = (IF call'.rank = None THEN rank ELSE call'.rank)
        /\ print_rank0_only' =
               (IF call'.print_rank0_only = None
                THEN print_rank0_only ELSE call'.print_rank0_only[1])]_vars

C3_Witness ==
    /\ call.op = "config"
    /\ call.rank = Some(0) /\ rank = Some(0)
    /\ call.print_rank0_only = Some(FALSE) /\ ~print_rank0_only
    /\ call.package_name = Some("") /\ package_name = Some("")
    /\ call.mode = None /\ mode = "silent"
    /\ call.verbosity = None /\ verbosity = Some("warning")

\* What the environment of a set_mode call holds for the facade's package.
EnvEntry(c, name) == c.env[<<Upper[name], "_LOG_MODE">>]

\* C4: set_mode("from_env") with a package name set makes the mode "package"
\* when <PACKAGE>_LOG_MODE is unset and the variable's value when that is dev,
\* package or silent (after silent, info writes nothing); with any other
\* value, or with no package name, it raises and the mode stays as it was.
C4_SetModeFromEnv ==
    [][call'.op = "set_mode" /\ call'.mode = "from_env" =>
        IF package_name = None
        THEN raised' # None /\ mode' = mode
        ELSE LET v == EnvEntry(call', package_name[1])
             IN IF v = None THEN raised' = None /\ mode' = "package"
                ELSE IF v[1] \in {"dev", "package", "silent"}
                THEN /\ raised' = None
                     /\ mode' = v[1]
                     /\ v[1] = "silent" =>
                            \A c \in LogCalls :
                                c.op = "info" =>
                                    log(Self', Bind(c), c.console_ok).written = <<>>
                ELSE raised' # None /\ mode' = mode]_vars

C4_Witness ==
    /\ call.op = "set_mode"
    /\ call.mode = "from_env"
    /\ package_name = Some("svc")
    /\ EnvEntry(call, "svc") = Some("silent")
    /\ raised = None
    /\ mode = "silent"

\* The line of package mode: the prefix "<namespace> - <LEVEL>:" and no
\* timestamp, origin or rank segment.
NamespacedLine(line) ==
    /\ line.content.namespace = Some(StrOf(package_name))
    /\ line.content.level = Some(repr_map[LevelOf(call)])
    /\ line.content.timestamp = FALSE
    /\ line.content.origin = None
    /\ line.content.rank = None
    /\ ~call.escape => line.content.message = Join(call.values, <<" ">>)

\* C5: in package mode a call at print or debug writes nothing, and a call
\* above debug that passes the verbosity and rank checks writes exactly one
\* line, the prefix "<namespace> - <LEVEL>:" and the message, with no
\* timestamp and no origin whatever print_* toggles it passed.
C5_PackageMode ==
    IsLogCall /\ mode = "package" =>
        IF int_map[LevelOf(call)] <= int_map["debug"]
        THEN written = <<>>
        ELSE (  /\ ~(verbosity # None /\ int_map[LevelOf(call)] < int_map[verbosity[1]])
                /\ ~RankRestricted
                /\ call.console_ok ) =>
                    Len(written) = 1 /\ NamespacedLine(written[1])

C5_Witness ==
    /\ IsLogCall
    /\ mode = "package"
    /\ package_name = Some("svc")
    /\ LevelOf(call) = "warning"
    /\ call.print_time = Some(TRUE)
    /\ call.print_origin = Some(TRUE)
    /\ Len(written) = 1
    /\ NamespacedLine(written[1])

\* C6: every line a call with escape=True writes carries the markup-escaped
\* form of the joined values as its message, in dev and in package mode.
C6_EscapedWhenAsked ==
    IsLogCall /\ call.escape /\ written # <<>> =>
        written[1].content.message = escape_markup(Join(call.values, <<" ">>))

\* C7: every line written to the console, the rules of graceful_exceptions
\* included, is written with the external-write scope held, and no scope is
\* held once the operation is over.
C7_WrittenUnderScope ==
    /\ \A i \in DOMAIN written : written[i].held
    /\ gx.pc \in Resting \cup {"exited"} => lock = 0

\* The steps of a report of e, in order.
Report(e) == <<"upper_rule", "traceback", "lower_rule", <<"on_exception", e>>>>

IsPrefix(s, t) == Len(s) <= Len(t) /\ s = SubSeq(t, 1, Len(s))

\* The lines of a report, in order.
ReportLines == <<"rule", "traceback", "rule">>

\* C8: when the block raises an exception of a handled class, the upper
\* rule, the traceback, the lower rule and on_exception(e) happen in this
\* order, once each, and only then the process exits with status 1 (exit) or
\* execution goes on after the block with nothing raised (not exit). When the
\* block completes normally none of them happens.
C8_ReportThenFinish ==
    /\ gx.pc = "returned" => gx.trace = <<>> /\ written = <<>> /\ gx.status = 0
    /\ gx.pc \notin {"idle", "body", "returned"} /\ Handled(gx.exc[1], gx.handled) =>
        /\ gx.pc # "propagated"
        /\ IsPrefix(gx.trace, Report(gx.exc[1]))
        /\ IsPrefix([i \in DOMAIN written |-> written[i].content.kind], ReportLines)
        /\ gx.pc \in {"finish", "exited", "continued"} =>
               gx.trace = Report(gx.exc[1]) /\ Len(written) = 3
        /\ gx.pc = "exited" => gx.exit /\ gx.status = 1
        /\ gx.pc = "continued" => ~gx.exit /\ gx.status = 0 /\ gx.out = None /\ raised = None
        /\ gx.pc = "failed" => gx.out = Some("ConsoleError")
        /\ gx.exit => gx.pc # "continued"
        /\ ~gx.exit => gx.pc # "exited"

C8_Witness ==
    /\ gx.pc = "continued"
    /\ gx.exc = Some("ValueError")
    /\ gx.handled = {"Exception"}
    /\ gx.trace = Report("ValueError")
    /\ Len(written) = 3

\* C9: when the block raises an exception whose class is a subclass of no
\* handled class, that exception leaves the block as it is: no rule, no
\* traceback, no on_exception and no exit, whatever exit is.
C9_UnhandledPropagates ==
    gx.pc \notin {"idle", "body", "returned"} /\ ~Handled(gx.exc[1], gx.handled) =>
        /\ gx.pc = "propagated"
        /\ gx.out = gx.exc
        /\ raised = gx.exc
        /\ gx.trace = <<>>
        /\ written = <<>>
        /\ gx.status = 0

C9_Witness ==
    /\ gx.pc = "propagated"
    /\ gx.exc = Some("TypeError")
    /\ gx.handled = {"ValueError"}
    /\ gx.exit
    /\ raised = Some("TypeError")

\* C10: the mode stored is always dev, package or silent.
C10_ModeConcrete == mode \in ConcreteModes

=============================================================================
